---- MODULE Spec2Model ----
(***************************************************************************)
(* Model of the SHEL photo preparation code                                *)
(*   src/src/photo_preparation_functions.py  (find_edges, create_mask,     *)
(*        crop_image, save_image, create_playing_card_dir, process_photos) *)
(*   src/src/download_best_model.py          (download_from_drive,         *)
(*        get_model)                                                       *)
(*                                                                         *)
(* A gray image is a function from the pixels <<x, y>> of its frame to an  *)
(* intensity 0..255.  A contour is the set of its boundary points.  The    *)
(* library calls are modelled by what OpenCV / numpy / pathlib / os do.    *)
(***************************************************************************)
EXTENDS Integers, Sequences, FiniteSets, TLC

VARIABLES
    ipc,          \* position inside crop_image / create_mask
    shape,        \* img.shape of the photo: <<height, width>>
    scene,        \* the objects of the photo: rectangles of the working frame
    size,         \* working resolution <<W, H>> after cv.resize
    edged_img,    \* find_edges(img)
    contours,     \* cv.findContours(...)[0]
    filled_card,  \* cv.fillPoly(...)
    mask,         \* cv.threshold(...)[1]
    eroded_mask,  \* cv.erode(mask, kernel)
    bbox,         \* cv.boundingRect(mask): <<x, y, w, h>>
    cropped_img,  \* rows and columns of the returned slice
    ierr,         \* the exception crop_image ended with, "none" if none
    bpc,          \* position inside process_photos
    PHOTOS_DIR,   \* the argument of process_photos
    entries,      \* the content of the directory PHOTOS_DIR
    dirs,         \* the directories that exist beside PHOTOS_DIR
    made_dirs,    \* the os.makedirs calls of the run, in order
    out_files,    \* the files cv.imwrite wrote: path -> input photo path
    photo_paths,  \* the paths the loop has still to process
    crop_args,    \* what crop_image was called with, in order
    written,      \* the save_image calls that wrote: <<photo path, file>>
    berr,         \* the exception process_photos ended with, and its path
    returned_dir, \* the value process_photos returned
    mpc,          \* position inside get_model
    cwd,          \* os.getcwd()
    fs,           \* the paths that exist
    fs_at_call,   \* fs when get_model was called
    downloads,    \* the download_from_drive calls of this get_model call
    calls,        \* number of get_model calls so far
    returned_path \* the value get_model returned

isoVars == <<ipc, shape, scene, size, edged_img, contours, filled_card, mask,
             eroded_mask, bbox, cropped_img, ierr>>

batchVars == <<bpc, PHOTOS_DIR, entries, dirs, made_dirs, out_files,
               photo_paths, crop_args, written, berr, returned_dir>>

modelVars == <<mpc, cwd, fs, fs_at_call, downloads, calls, returned_path>>

vars == <<isoVars, batchVars, modelVars>>

----------------------------------------------------------------------------
(* Bounds of the model *)

\* width and height of the photos of the isolator specification
ImgWidth == 47
ImgHeight == 27

\* frame of the masks of the erosion specification
ErodeW == 5
ErodeH == 2

\* number of pixels of the images of the threshold specification
ThreshPixels == 1

\* largest number of entries of the input directory of the batch runner
MaxFiles == 2

\* largest number of get_model calls in one run of the model fetcher
MaxCalls == 3

----------------------------------------------------------------------------
(* Program constants *)

ScaleDivisor == 4
FillColor == 255
Thresh == 180
MaxVal == 255
KernelSize == 5
Margin == 5

----------------------------------------------------------------------------
(* Helpers *)

Max2(a, b) == IF a >= b THEN a ELSE b
Min2(a, b) == IF a <= b THEN a ELSE b
MinOf(S) == CHOOSE v \in S : \A u \in S : v <= u
MaxOf(S) == CHOOSE v \in S : \A u \in S : v >= u

NoImage == <<>>
NoBox == <<0, 0, 0, 0>>
NoCrop == [rows |-> {}, cols |-> {}]

Pixels(W, H) == (0 .. W - 1) \X (0 .. H - 1)

\* the pixels of a gray image that are not zero
On(img) == {p \in DOMAIN img : img[p] # 0}

\* a rectangle <<x, y, w, h>>: its pixels and its boundary pixels
RectPixels(r) == (r[1] .. r[1] + r[3] - 1) \X (r[2] .. r[2] + r[4] - 1)
Outline(r) ==
    {p \in RectPixels(r) : \/ p[1] = r[1] \/ p[1] = r[1] + r[3] - 1
                           \/ p[2] = r[2] \/ p[2] = r[2] + r[4] - 1}

\* every rectangle inside a W x H frame
Rects(W, H) ==
    {r \in (0 .. W - 1) \X (0 .. H - 1) \X (1 .. W) \X (1 .. H) :
        r[1] + r[3] <= W /\ r[2] + r[4] <= H}

\* two objects are apart when no pixel of one touches a pixel of the other,
\* so that their edges are separate connected components
Apart(r, s) ==
    \/ r[1] + r[3] < s[1] \/ s[1] + s[3] < r[1]
    \/ r[2] + r[4] < s[2] \/ s[2] + s[4] < r[2]

\* the photos of the isolator specification: an empty background, one object,
\* or one object and a single stray pixel apart from it (to bound the model
\* the stray pixel lies on the diagonal of the frame)
Specks(W, H) == {r \in Rects(W, H) : r[3] = 1 /\ r[4] = 1 /\ r[1] = r[2]}
Scenes(W, H) ==
    {{}} \cup {{r} : r \in Rects(W, H)}
         \cup {{r, s} : r \in {q \in Rects(W, H) : q[3] > 1 /\ q[4] > 1},
                        s \in Specks(W, H)}

\* the objects of a photo do not touch each other
SceneOK(scn) == \A r \in scn : \A s \in scn \ {r} : Apart(r, s)

----------------------------------------------------------------------------
(* The library calls of create_mask and crop_image *)

\* cv.resize(img, (int(width / 4), int(height / 4))): the working resolution
WorkingSize(shp) == <<shp[2] \div ScaleDivisor, shp[1] \div ScaleDivisor>>

\* find_edges: cv.Canny marks the boundary of every object with 255
FindEdges(scn, W, H) ==
    [p \in Pixels(W, H) |->
        IF \E r \in scn : p \in Outline(r) THEN 255 ELSE 0]

\* cv.findContours(RETR_LIST, CHAIN_APPROX_NONE): one contour, with all its
\* points, for every connected component of the edge map
FindContours(scn) == {Outline(r) : r \in scn}

\* cv.contourArea of a contour running along the boundary of a rectangle
ContourArea(c) ==
    LET xs == {p[1] : p \in c}
        ys == {p[2] : p \in c}
    IN  (MaxOf(xs) - MinOf(xs)) * (MaxOf(ys) - MinOf(ys))

\* max(contours, key=cv.contourArea): the candidates; max raises ValueError
\* on an empty collection
Largest(cs) == {c \in cs : \A d \in cs : ContourArea(c) >= ContourArea(d)}

\* cv.fillPoly(img, [c], color): the polygon of c, boundary included
FillPoly(img, c) ==
    LET xs == {p[1] : p \in c}
        ys == {p[2] : p \in c}
    IN  [p \in DOMAIN img |->
            IF /\ MinOf(xs) <= p[1] /\ p[1] <= MaxOf(xs)
               /\ MinOf(ys) <= p[2] /\ p[2] <= MaxOf(ys)
            THEN FillColor ELSE img[p]]

\* a threshold that lets the value thresh itself through
ThreshAtLeast(v) == IF v >= Thresh THEN MaxVal ELSE 0
\* cv.threshold(..., thresh, maxval, THRESH_BINARY) on one pixel:
\* maxval if src > thresh, else 0
ThreshBinary(v) == IF v > Thresh THEN MaxVal ELSE 0

Threshold(img) == [p \in DOMAIN img |-> ThreshBinary(img[p])]

\* the pixels under the KernelSize x KernelSize all-ones kernel anchored at
\* its centre; pixels outside the frame do not take part (cv.erode's default
\* border value is the largest intensity)
Window(p, W, H) ==
    LET k == KernelSize \div 2
    IN  (Max2(p[1] - k, 0) .. Min2(p[1] + k, W - 1))
            \X (Max2(p[2] - k, 0) .. Min2(p[2] + k, H - 1))

\* cv.dilate: the maximum under the kernel
Dilate(img, W, H) ==
    [p \in Pixels(W, H) |-> MaxOf({img[q] : q \in Window(p, W, H)})]
\* cv.erode(mask, kernel): the minimum under the kernel, one iteration
Erode(img, W, H) ==
    [p \in Pixels(W, H) |-> MinOf({img[q] : q \in Window(p, W, H)})]

\* cv.boundingRect(mask): the smallest rectangle around the non-zero pixels,
\* <<0, 0, 0, 0>> when there is none
BoundingRect(img) ==
    LET on == On(img)
        xs == {p[1] : p \in on}
        ys == {p[2] : p \in on}
    IN  IF on = {} THEN NoBox
        ELSE <<MinOf(xs), MinOf(ys),
               MaxOf(xs) - MinOf(xs) + 1, MaxOf(ys) - MinOf(ys) + 1>>

\* one bound of a numpy slice over an axis of length n: a negative index
\* counts from the end, and the result is cut to 0 .. n
SliceIndex(i, n) == IF i < 0 THEN Max2(i + n, 0) ELSE Min2(i, n)

\* the indices numpy selects for a[start : stop] over an axis of length n
Slice(start, stop, n) == SliceIndex(start, n) .. SliceIndex(stop, n) - 1

\* img[y - 5 : y + h + 5, x - 5 : x + w + 5]
CropSlice(box, W, H) ==
    [rows |-> Slice(box[2] - Margin, box[2] + box[4] + Margin, H),
     cols |-> Slice(box[1] - Margin, box[1] + box[3] + Margin, W)]

----------------------------------------------------------------------------
(* crop_image, step by step *)

\* line 48-49: img.shape, cv.resize
Resize ==
    /\ ipc = "start"
    /\ size' = WorkingSize(shape)
    /\ ipc' = "resized"
    /\ UNCHANGED <<shape, scene, edged_img, contours, filled_card, mask,
                   eroded_mask, bbox, cropped_img, ierr>>
    /\ UNCHANGED <<batchVars, modelVars>>

\* line 31: find_edges
Edges ==
    /\ ipc = "resized"
    /\ edged_img' = FindEdges(scene, size[1], size[2])
    /\ ipc' = "edged"
    /\ UNCHANGED <<shape, scene, size, contours, filled_card, mask,
                   eroded_mask, bbox, cropped_img, ierr>>
    /\ UNCHANGED <<batchVars, modelVars>>

\* line 32: cv.findContours
Contours ==
    /\ ipc = "edged"
    /\ contours' = FindContours(scene)
    /\ ipc' = "contoured"
    /\ UNCHANGED <<shape, scene, size, edged_img, filled_card, mask,
                   eroded_mask, bbox, cropped_img, ierr>>
    /\ UNCHANGED <<batchVars, modelVars>>

\* line 33-35: max(contours, ...) and cv.fillPoly
Fill ==
    /\ ipc = "contoured"
    /\ IF contours = {}
       THEN /\ ipc' = "raised"
            /\ ierr' = "ValueError"
            /\ UNCHANGED filled_card
       ELSE /\ \E c \in Largest(contours) :
                   filled_card' = FillPoly(edged_img, c)
            /\ ipc' = "filled"
            /\ UNCHANGED ierr
    /\ UNCHANGED <<shape, scene, size, edged_img, contours, mask,
                   eroded_mask, bbox, cropped_img>>
    /\ UNCHANGED <<batchVars, modelVars>>

\* line 36: cv.threshold
Binarize ==
    /\ ipc = "filled"
    /\ mask' = Threshold(filled_card)
    /\ ipc' = "thresholded"
    /\ UNCHANGED <<shape, scene, size, edged_img, contours, filled_card,
                   eroded_mask, bbox, cropped_img, ierr>>
    /\ UNCHANGED <<batchVars, modelVars>>

\* line 37-41: cv.erode
ErodeMask ==
    /\ ipc = "thresholded"
    /\ eroded_mask' = Erode(mask, size[1], size[2])
    /\ ipc' = "eroded"
    /\ UNCHANGED <<shape, scene, size, edged_img, contours, filled_card,
                   mask, bbox, cropped_img, ierr>>
    /\ UNCHANGED <<batchVars, modelVars>>

\* line 51-56: cv.bitwise_and, cv.boundingRect and the slice
Crop ==
    /\ ipc = "eroded"
    /\ bbox' = BoundingRect(eroded_mask)
    /\ cropped_img' = CropSlice(BoundingRect(eroded_mask), size[1], size[2])
    /\ ipc' = "done"
    /\ UNCHANGED <<shape, scene, size, edged_img, contours, filled_card,
                   mask, eroded_mask, ierr>>
    /\ UNCHANGED <<batchVars, modelVars>>

\* the isolator, the batch runner and the model fetcher at rest
IdleIsolate ==
    /\ ipc = "idle"
    /\ shape = <<0, 0>>
    /\ scene = {}
    /\ size = <<0, 0>>
    /\ edged_img = NoImage
    /\ contours = {}
    /\ filled_card = NoImage
    /\ mask = NoImage
    /\ eroded_mask = NoImage
    /\ bbox = NoBox
    /\ cropped_img = NoCrop
    /\ ierr = "none"

IdleBatch ==
    /\ bpc = "idle"
    /\ PHOTOS_DIR = <<>>
    /\ entries = {}
    /\ dirs = {}
    /\ made_dirs = <<>>
    /\ out_files = {}
    /\ photo_paths = <<>>
    /\ crop_args = <<>>
    /\ written = <<>>
    /\ berr = [kind |-> "none", path |-> <<>>]
    /\ returned_dir = <<>>

IdleModel ==
    /\ mpc = "idle"
    /\ cwd = ""
    /\ fs = {}
    /\ fs_at_call = {}
    /\ downloads = <<>>
    /\ calls = 0
    /\ returned_path = ""

InitIsolate ==
    /\ ipc = "start"
    /\ shape = <<ImgHeight, ImgWidth>>
    /\ scene \in Scenes(ImgWidth \div ScaleDivisor, ImgHeight \div ScaleDivisor)
    /\ SceneOK(scene)
    /\ size = <<0, 0>>
    /\ edged_img = NoImage
    /\ contours = {}
    /\ filled_card = NoImage
    /\ mask = NoImage
    /\ eroded_mask = NoImage
    /\ bbox = NoBox
    /\ cropped_img = NoCrop
    /\ ierr = "none"
    /\ IdleBatch
    /\ IdleModel

NextIsolate ==
    \/ Resize
    \/ Edges
    \/ Contours
    \/ Fill
    \/ Binarize
    \/ ErodeMask
    \/ Crop

SpecIsolate == InitIsolate /\ [][NextIsolate]_vars

----------------------------------------------------------------------------
(* The threshold step on its own: every intensity *)

InitThreshold ==
    /\ ipc = "filled"
    /\ shape = <<ScaleDivisor, ScaleDivisor * ThreshPixels>>
    /\ scene = {}
    /\ size = <<ThreshPixels, 1>>
    /\ edged_img = NoImage
    /\ contours = {}
    /\ filled_card \in [Pixels(ThreshPixels, 1) -> 0 .. 255]
    /\ mask = NoImage
    /\ eroded_mask = NoImage
    /\ bbox = NoBox
    /\ cropped_img = NoCrop
    /\ ierr = "none"
    /\ IdleBatch
    /\ IdleModel

NextThreshold == Binarize

SpecThreshold == InitThreshold /\ [][NextThreshold]_vars

----------------------------------------------------------------------------
(* The erosion step on its own: every binary mask of a small frame *)

InitErode ==
    /\ ipc = "thresholded"
    /\ shape = <<ScaleDivisor * ErodeH, ScaleDivisor * ErodeW>>
    /\ scene = {}
    /\ size = <<ErodeW, ErodeH>>
    /\ edged_img = NoImage
    /\ contours = {}
    /\ filled_card = NoImage
    /\ mask \in [Pixels(ErodeW, ErodeH) -> {0, MaxVal}]
    /\ eroded_mask = NoImage
    /\ bbox = NoBox
    /\ cropped_img = NoCrop
    /\ ierr = "none"
    /\ IdleBatch
    /\ IdleModel

NextErode == ErodeMask

SpecErode == InitErode /\ [][NextErode]_vars

----------------------------------------------------------------------------
(* Paths: a str is a sequence of characters *)

IndicesOf(str, ch) == {i \in 1 .. Len(str) : str[i] = ch}

\* str.split(sep) for a separator of one character
RECURSIVE Split(_, _)
Split(str, sep) ==
    IF IndicesOf(str, sep) = {} THEN <<str>>
    ELSE LET i == MinOf(IndicesOf(str, sep))
         IN  <<SubSeq(str, 1, i - 1)>> \o Split(SubSeq(str, i + 1, Len(str)), sep)

Slash == <<"/">>
DotJpg == <<".", "j", "p", "g">>
DotPng == <<".", "p", "n", "g">>
Processed == <<"_", "p", "r", "o", "c", "e", "s", "s", "e", "d">>

\* line 63: input_photo_path.split("/")[-1].split(".")[0]
PhotoNameWithoutExtension(input_photo_path) ==
    LET name == Split(input_photo_path, "/")[Len(Split(input_photo_path, "/"))]
    IN  Split(name, ".")[1]

\* line 64: the file save_image writes
SavePath(input_photo_path, output_folder) ==
    output_folder \o Slash \o PhotoNameWithoutExtension(input_photo_path) \o DotJpg

\* line 71: PLAYING_CARDS_DIR
PlayingCardsDir(photo_DIR) == photo_DIR \o Processed

----------------------------------------------------------------------------
(* The input directories of the batch runner *)

PhotoDirs == {<<"i", "n">>, <<"p", ".", "d">>}

Names ==
    {<<"a">> \o DotPng, <<"a">> \o DotJpg, <<"b">> \o DotPng,
     <<"c", ".", "v", "2">> \o DotPng, <<"c", ".", "v", "3">> \o DotPng,
     <<"d">>}

\* photos of one card: away from the left and right edges of the frame, at
\* its left edge, and a photo of the empty background
CardScene(W, H) == {<<3, H - 3, W - 6, 3>>}
EdgeScene(W, H) == {<<0, H - 3, 3, 3>>}

Photo(scn) ==
    [decodable |-> TRUE, isdir |-> FALSE,
     shape |-> <<ImgHeight, ImgWidth>>, scene |-> scn]
NotAnImage == [decodable |-> FALSE, isdir |-> FALSE, shape |-> <<0, 0>>, scene |-> {}]
SubDirectory == [decodable |-> FALSE, isdir |-> TRUE, shape |-> <<0, 0>>, scene |-> {}]

Contents ==
    LET W == ImgWidth \div ScaleDivisor
        H == ImgHeight \div ScaleDivisor
    IN  {Photo(CardScene(W, H)), Photo(EdgeScene(W, H)), Photo({}),
         NotAnImage, SubDirectory}

\* the directories of at most n entries with different names
RECURSIVE DirectoriesUpTo(_)
DirectoriesUpTo(n) ==
    IF n = 0 THEN {{}}
    ELSE DirectoriesUpTo(n - 1) \cup
         {d \cup {e} : d \in DirectoriesUpTo(n - 1),
                       e \in [name : Names, content : Contents]}

Directories ==
    {d \in DirectoriesUpTo(MaxFiles) :
        \A e \in d : \A f \in d : e.name = f.name => e = f}

\* the orders in which Path.glob can enumerate a set of paths
Orders(S) ==
    {q \in [1 .. Cardinality(S) -> S] : \A i, j \in DOMAIN q : q[i] = q[j] => i = j}

----------------------------------------------------------------------------
(* process_photos *)

NoError == [kind |-> "none", path |-> <<>>]

PathOf(e) == PHOTOS_DIR \o Slash \o e.name
EntryAt(path) == CHOOSE e \in entries : PathOf(e) = path

\* cv.imread: None for what cannot be decoded
Imread(e) ==
    IF e.content.decodable
    THEN [none |-> FALSE, shape |-> e.content.shape, scene |-> e.content.scene]
    ELSE [none |-> TRUE, shape |-> <<0, 0>>, scene |-> {}]

\* crop_image(img) for a decoded photo: what it can end with
CropImage(img) ==
    LET W == WorkingSize(img.shape)[1]
        H == WorkingSize(img.shape)[2]
        edged == FindEdges(img.scene, W, H)
        cs == FindContours(img.scene)
    IN  IF cs = {} THEN {[err |-> "ValueError", crop |-> NoCrop]}
        ELSE {[err |-> "none",
               crop |-> CropSlice(
                   BoundingRect(Erode(Threshold(FillPoly(edged, c)), W, H)), W, H)]
              : c \in Largest(cs)}

\* line 72: the directory is made when it is not there
MustMake(dir, existing) == dir \notin existing

\* line 81-83: create_playing_card_dir and the glob
StartBatch ==
    /\ bpc = "start"
    /\ IF MustMake(PlayingCardsDir(PHOTOS_DIR), dirs)
       THEN /\ dirs' = dirs \cup {PlayingCardsDir(PHOTOS_DIR)}
            /\ made_dirs' = Append(made_dirs, PlayingCardsDir(PHOTOS_DIR))
       ELSE UNCHANGED <<dirs, made_dirs>>
    /\ photo_paths' \in Orders({PathOf(e) : e \in entries})
    /\ bpc' = "loop"
    /\ UNCHANGED <<PHOTOS_DIR, entries, out_files, crop_args, written, berr,
                   returned_dir>>
    /\ UNCHANGED <<isoVars, modelVars>>

\* line 84-87: one turn of the loop
ProcessPhoto ==
    /\ bpc = "loop"
    /\ photo_paths # <<>>
    /\ LET photo_path == Head(photo_paths)
           photo == Imread(EntryAt(photo_path))
       IN  /\ crop_args' = Append(crop_args, photo)
           /\ IF photo.none
              THEN \* img.shape of None
                   /\ berr' = [kind |-> "AttributeError", path |-> photo_path]
                   /\ bpc' = "raised"
                   /\ UNCHANGED <<out_files, written, photo_paths>>
              ELSE \E r \in CropImage(photo) :
                     IF r.err # "none"
                     THEN /\ berr' = [kind |-> r.err, path |-> photo_path]
                          /\ bpc' = "raised"
                          /\ UNCHANGED <<out_files, written, photo_paths>>
                     ELSE IF r.crop.rows = {} \/ r.crop.cols = {}
                     THEN \* cv.imwrite refuses an empty image
                          /\ berr' = [kind |-> "cv2.error", path |-> photo_path]
                          /\ bpc' = "raised"
                          /\ UNCHANGED <<out_files, written, photo_paths>>
                     ELSE /\ out_files' = out_files \cup
                               {SavePath(photo_path, PlayingCardsDir(PHOTOS_DIR))}
                          /\ written' = Append(written,
                               <<photo_path,
                                 SavePath(photo_path, PlayingCardsDir(PHOTOS_DIR))>>)
                          /\ photo_paths' = Tail(photo_paths)
                          /\ UNCHANGED <<berr, bpc>>
    /\ UNCHANGED <<PHOTOS_DIR, entries, dirs, made_dirs, returned_dir>>
    /\ UNCHANGED <<isoVars, modelVars>>

\* line 88-89: the loop is over
FinishBatch ==
    /\ bpc = "loop"
    /\ photo_paths = <<>>
    /\ returned_dir' = PlayingCardsDir(PHOTOS_DIR)
    /\ bpc' = "done"
    /\ UNCHANGED <<PHOTOS_DIR, entries, dirs, made_dirs, out_files, photo_paths,
                   crop_args, written, berr>>
    /\ UNCHANGED <<isoVars, modelVars>>

InitBatch ==
    /\ bpc = "start"
    /\ PHOTOS_DIR \in PhotoDirs
    /\ entries \in Directories
    /\ dirs \in {{PHOTOS_DIR}, {PHOTOS_DIR, PlayingCardsDir(PHOTOS_DIR)}}
    /\ made_dirs = <<>>
    /\ out_files = {}
    /\ photo_paths = <<>>
    /\ crop_args = <<>>
    /\ written = <<>>
    /\ berr = NoError
    /\ returned_dir = <<>>
    /\ IdleIsolate
    /\ IdleModel

NextBatch ==
    \/ StartBatch
    \/ ProcessPhoto
    \/ FinishBatch

SpecBatch == InitBatch /\ [][NextBatch]_vars

----------------------------------------------------------------------------
(* get_model *)

Cwds == {"/", "/home/u", "/srv/shel"}

\* line 13-14
ModelsDir(dir) == dir \o "/models"
BestModelPath(dir) == ModelsDir(dir) \o "/best.pt"

\* line 16: not os.path.exists(MODELS_DIR)
DirAbsent(path, existing) == path \notin existing

\* a download that does not look whether the file is there
FileAlwaysAbsent(path, existing) == TRUE
\* line 20: not os.path.exists(BEST_MODEL_PATH)
FileAbsent(path, existing) == path \notin existing

\* line 8-10: gdown.download writes the file, or gives up and leaves none
DownloadFromDrive(path, existing) == {existing \cup {path}, existing}

\* line 12-14: a caller calls get_model
CallGetModel ==
    /\ mpc \in {"idle", "done"}
    /\ calls < MaxCalls
    /\ calls' = calls + 1
    /\ fs_at_call' = fs
    /\ downloads' = <<>>
    /\ returned_path' = ""
    /\ mpc' = "dir"
    /\ UNCHANGED <<cwd, fs>>
    /\ UNCHANGED <<isoVars, batchVars>>

\* line 16-18
CheckDir ==
    /\ mpc = "dir"
    /\ IF DirAbsent(ModelsDir(cwd), fs)
       THEN /\ fs' \in DownloadFromDrive(BestModelPath(cwd),
                                         fs \cup {ModelsDir(cwd)})
            /\ downloads' = Append(downloads, BestModelPath(cwd))
       ELSE UNCHANGED <<fs, downloads>>
    /\ mpc' = "file"
    /\ UNCHANGED <<cwd, fs_at_call, calls, returned_path>>
    /\ UNCHANGED <<isoVars, batchVars>>

\* line 20-21
CheckFile ==
    /\ mpc = "file"
    /\ IF FileAbsent(BestModelPath(cwd), fs)
       THEN /\ fs' \in DownloadFromDrive(BestModelPath(cwd), fs)
            /\ downloads' = Append(downloads, BestModelPath(cwd))
       ELSE UNCHANGED <<fs, downloads>>
    /\ mpc' = "return"
    /\ UNCHANGED <<cwd, fs_at_call, calls, returned_path>>
    /\ UNCHANGED <<isoVars, batchVars>>

\* line 22
ReturnPath ==
    /\ mpc = "return"
    /\ returned_path' = BestModelPath(cwd)
    /\ mpc' = "done"
    /\ UNCHANGED <<cwd, fs, fs_at_call, downloads, calls>>
    /\ UNCHANGED <<isoVars, batchVars>>

InitModel ==
    /\ mpc = "idle"
    /\ cwd \in Cwds
    /\ fs \in {{cwd}, {cwd, ModelsDir(cwd)},
               {cwd, ModelsDir(cwd), BestModelPath(cwd)}}
    /\ fs_at_call = {}
    /\ downloads = <<>>
    /\ calls = 0
    /\ returned_path = ""
    /\ IdleIsolate
    /\ IdleBatch

NextModel ==
    \/ CallGetModel
    \/ CheckDir
    \/ CheckFile
    \/ ReturnPath

SpecModel == InitModel /\ [][NextModel]_vars

----------------------------------------------------------------------------
(* Claims about the isolator *)

\* the bounding box grown by the margin and cut to the frame of n indices
ClampedRange(lo, len, n) == Max2(lo - 5, 0) .. Min2(lo + len + 5, n) - 1

\* C1: the rectangle crop_image cuts out is the bounding box of the mask
\* grown by 5 pixels on every side and clamped to the working frame, also
\* when the box is closer than 5 pixels to an edge of the frame.
C1_CropIsClampedBox ==
    ipc = "done" =>
        /\ cropped_img.rows = ClampedRange(bbox[2], bbox[4], size[2])
        /\ cropped_img.cols = ClampedRange(bbox[1], bbox[3], size[1])

\* C2: with zero contours the isolator fails with NoForegroundDetected at the
\* selection of the largest contour, and never reaches fill, threshold or
\* crop.
C2_NoContoursIsNoForeground ==
    /\ ipc \in {"filled", "thresholded", "eroded", "done"} => contours # {}
    /\ (ipc = "raised" /\ contours = {}) => ierr = "NoForegroundDetected"

\* C5: when the mask is not empty the image crop_image returns has a width
\* and a height above 0 and not above the working resolution.
C5_CropNonEmpty ==
    (ipc = "done" /\ On(eroded_mask) # {}) =>
        /\ Cardinality(cropped_img.cols) > 0
        /\ Cardinality(cropped_img.rows) > 0
        /\ Cardinality(cropped_img.cols) <= shape[2] \div 4
        /\ Cardinality(cropped_img.rows) <= shape[1] \div 4

\* C8 as stated: the threshold step maps an intensity of 180 or more to 255
\* and any other to 0.
C8_ThresholdAtLeast180 ==
    ipc = "thresholded" =>
        \A p \in DOMAIN filled_card :
            mask[p] = IF filled_card[p] >= 180 THEN 255 ELSE 0

\* C8 amended: the threshold step maps an intensity above 180 to 255 and any
\* other, 180 included, to 0.
C8_ThresholdAbove180 ==
    ipc = "thresholded" =>
        \A p \in DOMAIN filled_card :
            mask[p] = IF filled_card[p] > 180 THEN 255 ELSE 0

\* C8 witness: a pixel of intensity exactly 180 has been thresholded to 0.
C8_Witness ==
    /\ ipc = "thresholded"
    /\ \E p \in DOMAIN filled_card : filled_card[p] = 180 /\ mask[p] = 0

\* C9: erosion never turns an off pixel on: the on pixels of the eroded mask
\* are among those of the mask, and are not more.
C9_ErosionShrinks ==
    ipc = "eroded" =>
        /\ On(eroded_mask) \subseteq On(mask)
        /\ Cardinality(On(eroded_mask)) <= Cardinality(On(mask))

\* C9 witness: an erosion that removed some on pixels and kept others.
C9_Witness ==
    /\ ipc = "eroded"
    /\ On(eroded_mask) # {}
    /\ On(eroded_mask) # On(mask)

----------------------------------------------------------------------------
(* Claims about the batch runner *)

AllPhotos == \A e \in entries : e.content.decodable

\* C3: a run over a directory of N readable photos and no sub-directory makes
\* the one directory <input_dir>_processed, and only if it was absent, and
\* when the run finishes that directory holds N files, one for each photo,
\* no two photos written to the same file.
C3_OneFilePerPhoto ==
    (bpc = "done" /\ AllPhotos) =>
        /\ PlayingCardsDir(PHOTOS_DIR) \in dirs
        /\ Len(made_dirs) <= 1
        /\ \A i \in DOMAIN made_dirs : made_dirs[i] = PlayingCardsDir(PHOTOS_DIR)
        /\ Cardinality(out_files) = Cardinality(entries)
        /\ \A i, j \in DOMAIN written :
               written[i][2] = written[j][2] => i = j

\* the file name with its extension stripped: what is before the last dot
NameUpToLastDot(input_photo_path) ==
    LET name == Split(input_photo_path, "/")[Len(Split(input_photo_path, "/"))]
        dots == IndicesOf(name, ".")
    IN  IF dots = {} THEN name ELSE SubSeq(name, 1, MaxOf(dots) - 1)

\* C4: save_image writes <output_folder>/<base>.jpg, where <base> is the file
\* name of the photo up to its last dot, or the whole name if it has no dot.
C4_SavedUnderBaseName ==
    \A i \in DOMAIN written :
        written[i][2] = PlayingCardsDir(PHOTOS_DIR) \o Slash
                            \o NameUpToLastDot(written[i][1]) \o DotJpg

\* C7: a path that cannot be decoded ends the run with a DecodeError for that
\* path, and crop_image is never called with a missing image.
C7_UndecodableIsDecodeError ==
    /\ \A i \in DOMAIN crop_args : ~crop_args[i].none
    /\ (bpc = "raised" /\ ~EntryAt(berr.path).content.decodable)
           => berr.kind = "DecodeError"

----------------------------------------------------------------------------
(* Claims about the model fetcher *)

\* C6: get_model returns <cwd>/models/best.pt; it fetches the artifact, to
\* that path, exactly when the models directory or the model file was absent
\* when it was called; when both were there it downloads nothing and leaves
\* the file system as it was.
C6_FetchWhenAbsent ==
    mpc = "done" =>
        /\ returned_path = cwd \o "/models/best.pt"
        /\ \A i \in DOMAIN downloads : downloads[i] = cwd \o "/models/best.pt"
        /\ downloads # <<>> <=>
               \/ (cwd \o "/models") \notin fs_at_call
               \/ (cwd \o "/models/best.pt") \notin fs_at_call
        /\ ( /\ (cwd \o "/models") \in fs_at_call
             /\ (cwd \o "/models/best.pt") \in fs_at_call ) => fs = fs_at_call

\* C6 witness: a call that found the directory but not the file, downloaded
\* once and returned with the file in place.
C6_Witness ==
    /\ mpc = "done"
    /\ (cwd \o "/models") \in fs_at_call
    /\ (cwd \o "/models/best.pt") \notin fs_at_call
    /\ Len(downloads) = 1
    /\ (cwd \o "/models/best.pt") \in fs

\* C10: one call of get_model starts at most one download.
C10_AtMostOneDownload == Len(downloads) <= 1

====
